---- MODULE Spec2Model ----
(***************************************************************************)
(* Model of src/city/zip.py: main() globs "*.zip" in the working           *)
(* directory, sorts the matches, and for each one extracts it into the     *)
(* working directory and unlinks it.  An exception that main() does not    *)
(* catch ends the interpreter with a traceback and exit status 1.          *)
(*                                                                         *)
(* The working directory is a map from file path (a sequence of path       *)
(* components) to file content.  A content is absent, plain data (bytes    *)
(* that are not a zip archive) or a zip archive with a sequence of         *)
(* entries, each a stored path and a body.                                 *)
(***************************************************************************)
EXTENDS Naturals, Integers, Sequences, FiniteSets, TLC

VARIABLES
  dir,        \* the files of the working directory (cwd, line 9)
  dir0,       \* the working directory as it was when this run started
  zip_files,  \* the discovered list (line 10)
  i,          \* position of the for loop in zip_files (line 16)
  pc,         \* the statement main() executes next
  trace,      \* this run's printed lines and filesystem operations, in order
  status,     \* the exit status of the process, -1 while it runs (line 30)
  exc,        \* the exception that left main(), "none" if there is none
  run,        \* number of this invocation of the script
  prev,       \* exit status of the previous invocation, -1 if there is none
  prevFiles   \* the list the previous invocation discovered

vars == <<dir, dir0, zip_files, i, pc, trace, status, exc, run, prev, prevFiles>>

----------------------------------------------------------------------------
(* Bounds of the model *)

\* total number of entries stored in the archives of the initial directory
MaxEntries == 2

\* number of consecutive invocations of the script on the same directory
MaxRuns == 2

----------------------------------------------------------------------------
(* File contents *)

Absent == [kind |-> "absent", entries |-> <<>>]

Data == [kind |-> "data", entries |-> <<>>]

Zip(es) == [kind |-> "zip", entries |-> es]

Entry(p, b) == [path |-> p, body |-> b]

\* a valid archive holding one plain file, used as the body of nested entries
InnerZip == Zip(<<Entry(<<"f.txt">>, Data)>>)

----------------------------------------------------------------------------
(* File names and paths *)

\* the characters (code points) of the path components the model uses
Chars(c) ==
  CASE c = "a.zip"    -> <<97, 46, 122, 105, 112>>
    [] c = "ab.zip"   -> <<97, 98, 46, 122, 105, 112>>
    [] c = "b.zip"    -> <<98, 46, 122, 105, 112>>
    [] c = "f.txt"    -> <<102, 46, 116, 120, 116>>
    [] c = "up.txt"   -> <<117, 112, 46, 116, 120, 116>>
    [] c = "sub"      -> <<115, 117, 98>>
    [] c = "dir"      -> <<100, 105, 114>>
    [] c = "file.txt" -> <<102, 105, 108, 101, 46, 116, 120, 116>>
    [] c = ".."       -> <<46, 46>>

ArchiveNames == {"a.zip", "ab.zip", "b.zip"}

ArchivePaths == {<<n>> : n \in ArchiveNames}

\* paths under which the entries of the modelled archives are stored
StoredFilePaths == {<<"sub", "dir", "file.txt">>, <<"..", "up.txt">>}

\* zipfile's extraction target of a stored path: empty, "." and ".."
\* components are dropped, the rest is joined under the working directory
Target(p) == SelectSeq(p, LAMBDA c : c \notin {"", ".", ".."})

\* f.txt: a plain file of the working directory, and the entry of InnerZip
AllPaths == ArchivePaths \cup {Target(p) : p \in StoredFilePaths} \cup {<<"f.txt">>}

\* the name under which an archive is stored inside another one: the middle
\* name of the three, which is earlier than, later than or the same as the
\* name of the archive that stores it
NestedArchivePath == <<"ab.zip">>

Entries ==
  {Entry(p, Data) : p \in StoredFilePaths \cup {NestedArchivePath}}
    \cup {Entry(NestedArchivePath, InnerZip)}

SeqsOfLen(S, n) == [1..n -> S]

----------------------------------------------------------------------------
(* discover: sorted(cwd.glob("*.zip")) *)

RECURSIVE LexLess(_, _)
\* s < t for sequences of code points, as str.__lt__ compares
LexLess(s, t) ==
  IF t = <<>> THEN FALSE
  ELSE IF s = <<>> THEN TRUE
  ELSE IF Head(s) # Head(t) THEN Head(s) < Head(t)
  ELSE LexLess(Tail(s), Tail(t))

EndsWith(s, suf) ==
  /\ Len(s) >= Len(suf)
  /\ SubSeq(s, Len(s) - Len(suf) + 1, Len(s)) = suf

\* the pattern "*.zip": any name ending in the four characters ".zip"
MatchesZip(name) == EndsWith(Chars(name), <<46, 122, 105, 112>>)

\* names of the entries directly in the working directory
TopLevelNames(d) == {p[1] : p \in {q \in DOMAIN d : d[q] # Absent}}

Glob(d) == {n \in TopLevelNames(d) : MatchesZip(n)}

RECURSIVE SortedDesc(_)
\* faulty variant: descending order
SortedDesc(S) ==
  IF S = {} THEN <<>>
  ELSE LET m == CHOOSE x \in S : \A y \in S \ {x} : LexLess(Chars(y), Chars(x))
       IN <<m>> \o SortedDesc(S \ {m})

RECURSIVE Sorted(_)
\* sorted(): ascending by name
Sorted(S) ==
  IF S = {} THEN <<>>
  ELSE LET m == CHOOSE x \in S : \A y \in S \ {x} : LexLess(Chars(x), Chars(y))
       IN <<m>> \o Sorted(S \ {m})

----------------------------------------------------------------------------
(* extraction *)

RECURSIVE WriteEntries(_, _, _)
\* the directory after the first k entries of es are written, in order,
\* each at its extraction target, replacing what was there
WriteEntries(d, es, k) ==
  IF k = 0 THEN d
  ELSE LET d1 == WriteEntries(d, es, k - 1)
       IN [d1 EXCEPT ![Target(es[k].path)] = es[k].body]

----------------------------------------------------------------------------
(* events of the run: lines on standard output and filesystem operations *)

Line(what, name, n) == [kind |-> "print", what |-> what, name |-> name, count |-> n]

\* es: the entries read from the archive when it was opened (extract only)
Op(what, name, ok, es) ==
  [kind |-> "op", what |-> what, name |-> name, ok |-> ok, entries |-> es]

Stdout == SelectSeq(trace, LAMBDA e : e.kind = "print")

Cur == zip_files[i]

----------------------------------------------------------------------------
(* Initial state: the working directory before the first run *)

\* what a file named *.zip can hold before the run, given how many entries
\* it stores when it is a valid archive
ArchiveContents(n) ==
  IF n = 0 THEN {Absent, Data, Zip(<<>>)}
  ELSE {Zip(es) : es \in SeqsOfLen(Entries, n)}

\* the directory that holds ca, cab and cb under the three archive names
\* and cf as f.txt
DirOf(ca, cab, cb, cf) ==
  [p \in AllPaths |->
     CASE p = <<"a.zip">>  -> ca
       [] p = <<"ab.zip">> -> cab
       [] p = <<"b.zip">>  -> cb
       [] p = <<"f.txt">>  -> cf
       [] OTHER            -> Absent]

Init ==
  /\ \E la \in 0..MaxEntries :
       \E lab \in 0..(MaxEntries - la) :
         \E lb \in 0..(MaxEntries - la - lab) :
           \E ca \in ArchiveContents(la), cab \in ArchiveContents(lab),
              cb \in ArchiveContents(lb), cf \in {Absent, Data} :
             dir = DirOf(ca, cab, cb, cf)
  /\ dir0 = dir
  /\ zip_files = <<>>
  /\ i = 0
  /\ pc = "glob"
  /\ trace = <<>>
  /\ status = -1
  /\ exc = "none"
  /\ run = 1
  /\ prev = -1
  /\ prevFiles = <<>>

----------------------------------------------------------------------------
(* main(), one action per statement *)

\* faulty variant: a blanket handler turns the failure into a normal exit
Raise_Zero(e) ==
  /\ pc' = "done"
  /\ status' = 0
  /\ exc' = e

\* an exception main() does not catch: sys.exit() is never reached, the
\* interpreter prints the traceback and exits with status 1
Raise(e) ==
  /\ pc' = "done"
  /\ status' = 1
  /\ exc' = e

\* line 10: zip_files = sorted(cwd.glob("*.zip"))
Discover ==
  /\ pc = "glob"
  /\ zip_files' = Sorted(Glob(dir))
  /\ pc' = "check"
  /\ UNCHANGED <<dir, dir0, i, trace, status, exc, run, prev, prevFiles>>

\* faulty variant: the emptiness test is missing
CheckEmpty_Skipped ==
  /\ pc = "check"
  /\ pc' = "for"
  /\ UNCHANGED <<dir, dir0, zip_files, i, trace, status, exc, run, prev, prevFiles>>

\* line 12: if not zip_files
CheckEmpty ==
  /\ pc = "check"
  /\ pc' = IF zip_files = <<>> THEN "none" ELSE "for"
  /\ UNCHANGED <<dir, dir0, zip_files, i, trace, status, exc, run, prev, prevFiles>>

\* line 13: print("No .zip files found ...")
PrintNone ==
  /\ pc = "none"
  /\ trace' = Append(trace, Line("none", "", 0))
  /\ pc' = "return1"
  /\ UNCHANGED <<dir, dir0, zip_files, i, status, exc, run, prev, prevFiles>>

\* faulty variant: the no-archives branch returns the success status
ReturnNone_Zero ==
  /\ pc = "return1"
  /\ status' = 0
  /\ pc' = "done"
  /\ UNCHANGED <<dir, dir0, zip_files, i, trace, exc, run, prev, prevFiles>>

\* line 14: return 1, handed to sys.exit
ReturnNone ==
  /\ pc = "return1"
  /\ status' = 1
  /\ pc' = "done"
  /\ UNCHANGED <<dir, dir0, zip_files, i, trace, exc, run, prev, prevFiles>>

\* faulty variant: the loop stops one archive early
ForNext_OffByOne ==
  /\ pc = "for"
  /\ IF i < Len(zip_files) - 1
       THEN i' = i + 1 /\ pc' = "print_extracting"
       ELSE i' = i /\ pc' = "summary"
  /\ UNCHANGED <<dir, dir0, zip_files, trace, status, exc, run, prev, prevFiles>>

\* line 16: for zip_path in zip_files
ForNext ==
  /\ pc = "for"
  /\ IF i < Len(zip_files)
       THEN i' = i + 1 /\ pc' = "print_extracting"
       ELSE i' = i /\ pc' = "summary"
  /\ UNCHANGED <<dir, dir0, zip_files, trace, status, exc, run, prev, prevFiles>>

\* faulty variant: the progress line is missing
PrintExtracting_Silent ==
  /\ pc = "print_extracting"
  /\ pc' = "extract"
  /\ UNCHANGED <<dir, dir0, zip_files, i, trace, status, exc, run, prev, prevFiles>>

\* line 17: print(f"Extracting: {zip_path.name}")
PrintExtracting ==
  /\ pc = "print_extracting"
  /\ trace' = Append(trace, Line("extracting", Cur, 0))
  /\ pc' = "extract"
  /\ UNCHANGED <<dir, dir0, zip_files, i, status, exc, run, prev, prevFiles>>

\* faulty variant: the failure is caught and the loop continues with the next archive
ExtractOpenFails_Continue ==
  /\ pc = "extract"
  /\ dir' = dir
  /\ trace' = Append(trace, Op("extract", Cur, FALSE, <<>>))
  /\ pc' = "for"
  /\ UNCHANGED <<dir0, zip_files, i, status, exc, run, prev, prevFiles>>

\* lines 18-19, the archive cannot be opened: it is not a zip archive
\* (BadZipFile) or the open itself fails (OSError); nothing is written
ExtractOpenFails ==
  /\ pc = "extract"
  /\ dir' = dir
  /\ trace' = Append(trace, Op("extract", Cur, FALSE, <<>>))
  /\ \/ dir[<<Cur>>].kind # "zip" /\ Raise("BadZipFile")
     \/ Raise("OSError")
  /\ UNCHANGED <<dir0, zip_files, i, run, prev, prevFiles>>

\* faulty variant: the failure is caught and ignored, the archive is deleted anyway
ExtractWriteFails_Swallowed ==
  /\ pc = "extract"
  /\ dir[<<Cur>>].kind = "zip"
  /\ LET es == dir[<<Cur>>].entries
     IN \E k \in 0..(Len(es) - 1) : dir' = WriteEntries(dir, es, k)
  /\ trace' = Append(trace, Op("extract", Cur, FALSE, dir[<<Cur>>].entries))
  /\ pc' = "print_extracted"
  /\ UNCHANGED <<dir0, zip_files, i, status, exc, run, prev, prevFiles>>

\* lines 18-19, extractall fails at entry k + 1: the k entries before it are
\* written, the failing entry's target is left as it was or holds a partial
\* file, and the exception leaves main()
ExtractWriteFails ==
  /\ pc = "extract"
  /\ dir[<<Cur>>].kind = "zip"
  /\ LET es == dir[<<Cur>>].entries
     IN \E k \in 0..(Len(es) - 1), partial \in BOOLEAN :
          LET d == WriteEntries(dir, es, k)
          IN dir' = IF partial THEN [d EXCEPT ![Target(es[k + 1].path)] = Data]
                    ELSE d
  /\ trace' = Append(trace, Op("extract", Cur, FALSE, dir[<<Cur>>].entries))
  /\ Raise("OSError")
  /\ UNCHANGED <<dir0, zip_files, i, run, prev, prevFiles>>

\* lines 18-19, every entry is written and the archive is closed
ExtractOk ==
  /\ pc = "extract"
  /\ dir[<<Cur>>].kind = "zip"
  /\ LET es == dir[<<Cur>>].entries
     IN dir' = WriteEntries(dir, es, Len(es))
  /\ trace' = Append(trace, Op("extract", Cur, TRUE, dir[<<Cur>>].entries))
  /\ pc' = "print_extracted"
  /\ UNCHANGED <<dir0, zip_files, i, status, exc, run, prev, prevFiles>>

\* line 20: print(f"Extracted contents of {zip_path.name}")
PrintExtracted ==
  /\ pc = "print_extracted"
  /\ trace' = Append(trace, Line("extracted", Cur, 0))
  /\ pc' = "unlink"
  /\ UNCHANGED <<dir, dir0, zip_files, i, status, exc, run, prev, prevFiles>>

\* faulty variant: the file is not removed
UnlinkOk_Keeps ==
  /\ pc = "unlink"
  /\ dir' = dir
  /\ trace' = Append(trace, Op("unlink", Cur, TRUE, <<>>))
  /\ pc' = "print_deleted"
  /\ UNCHANGED <<dir0, zip_files, i, status, exc, run, prev, prevFiles>>

\* line 23: zip_path.unlink() removes the file
UnlinkOk ==
  /\ pc = "unlink"
  /\ dir' = [dir EXCEPT ![<<Cur>>] = Absent]
  /\ trace' = Append(trace, Op("unlink", Cur, TRUE, <<>>))
  /\ pc' = "print_deleted"
  /\ UNCHANGED <<dir0, zip_files, i, status, exc, run, prev, prevFiles>>

\* faulty variant: the failure of unlink is caught and ignored
UnlinkFails_Swallowed ==
  /\ pc = "unlink"
  /\ dir' = dir
  /\ trace' = Append(trace, Op("unlink", Cur, FALSE, <<>>))
  /\ pc' = "print_deleted"
  /\ UNCHANGED <<dir0, zip_files, i, status, exc, run, prev, prevFiles>>

\* line 23: zip_path.unlink() raises (e.g. PermissionError), the file stays
UnlinkFails ==
  /\ pc = "unlink"
  /\ dir' = dir
  /\ trace' = Append(trace, Op("unlink", Cur, FALSE, <<>>))
  /\ Raise("OSError")
  /\ UNCHANGED <<dir0, zip_files, i, run, prev, prevFiles>>

\* line 24: print(f"Deleted: {zip_path.name}")
PrintDeleted ==
  /\ pc = "print_deleted"
  /\ trace' = Append(trace, Line("deleted", Cur, 0))
  /\ pc' = "for"
  /\ UNCHANGED <<dir, dir0, zip_files, i, status, exc, run, prev, prevFiles>>

\* line 26: print(f"Finished extracting {len(zip_files)} file(s).")
PrintSummary ==
  /\ pc = "summary"
  /\ trace' = Append(trace, Line("summary", "", Len(zip_files)))
  /\ pc' = "return0"
  /\ UNCHANGED <<dir, dir0, zip_files, i, status, exc, run, prev, prevFiles>>

\* line 27: return 0, handed to sys.exit
ReturnOk ==
  /\ pc = "return0"
  /\ status' = 0
  /\ pc' = "done"
  /\ UNCHANGED <<dir, dir0, zip_files, i, trace, exc, run, prev, prevFiles>>

\* the script is invoked again on the directory the previous run left
Rerun ==
  /\ pc = "done"
  /\ run < MaxRuns
  /\ run' = run + 1
  /\ prev' = status
  /\ prevFiles' = zip_files
  /\ dir0' = dir
  /\ zip_files' = <<>>
  /\ i' = 0
  /\ trace' = <<>>
  /\ status' = -1
  /\ exc' = "none"
  /\ pc' = "glob"
  /\ UNCHANGED dir

Next ==
  \/ Discover
  \/ CheckEmpty
  \/ PrintNone
  \/ ReturnNone
  \/ ForNext
  \/ PrintExtracting
  \/ ExtractOpenFails
  \/ ExtractWriteFails
  \/ ExtractOk
  \/ PrintExtracted
  \/ UnlinkOk
  \/ UnlinkFails
  \/ PrintDeleted
  \/ PrintSummary
  \/ ReturnOk
  \/ Rerun

Spec == Init /\ [][Next]_vars

----------------------------------------------------------------------------
(* Vocabulary of the properties *)

\* the list has been discovered (line 10 has run in this invocation)
Discovered == pc # "glob"

Files == {zip_files[j] : j \in 1..Len(zip_files)}

Idx == 1..Len(trace)

IsOp(e, what, n) == e.kind = "op" /\ e.what = what /\ e.name = n

IsLine(e, what, n) == e.kind = "print" /\ e.what = what /\ e.name = n

ExtractedOk(n) == \E p \in Idx : IsOp(trace[p], "extract", n) /\ trace[p].ok

ExtractFailed(n) == \E p \in Idx : IsOp(trace[p], "extract", n) /\ ~trace[p].ok

DeletedOk(n) == \E p \in Idx : IsOp(trace[p], "unlink", n) /\ trace[p].ok

DeleteFailed(n) == \E p \in Idx : IsOp(trace[p], "unlink", n) /\ ~trace[p].ok

\* the run opened, extracted or unlinked the archive
Touched(n) == \E p \in Idx : trace[p].kind = "op" /\ trace[p].name = n

Printed(what) == \E p \in Idx : trace[p].kind = "print" /\ trace[p].what = what

\* how the run ended
Outcome ==
  IF exc # "none" THEN "error"
  ELSE IF zip_files = <<>> THEN "empty"
  ELSE "success"

----------------------------------------------------------------------------
(* C1 *)

\* C1: a discovered archive is unlinked only after its own extraction has
\* completed; an archive whose extraction failed is never unlinked and is
\* still in the directory; an archive that is gone was extracted and
\* unlinked; and when the run has ended every discovered archive was
\* extracted and unlinked, or the run ended with an error.
C1_DeleteOnlyAfterExtract ==
  Discovered =>
    /\ \A p \in Idx :
         (trace[p].kind = "op" /\ trace[p].what = "unlink") =>
           \E q \in 1..(p - 1) :
             IsOp(trace[q], "extract", trace[p].name) /\ trace[q].ok
    /\ \A n \in Files :
         ExtractFailed(n) =>
           /\ ~DeletedOk(n)
           /\ ~DeleteFailed(n)
           /\ dir[<<n>>] # Absent
    /\ \A n \in Files : dir[<<n>>] = Absent => ExtractedOk(n) /\ DeletedOk(n)
    /\ pc = "done" =>
         \A n \in Files :
           \/ ExtractedOk(n) /\ DeletedOk(n)
           \/ status # 0 /\ exc # "none"

\* one archive extracted and unlinked, the next one failed in the middle of
\* its extraction and is still there
C1_Witness ==
  /\ pc = "done"
  /\ Len(zip_files) >= 2
  /\ DeletedOk(zip_files[1])
  /\ dir[<<zip_files[1]>>] = Absent
  /\ ExtractFailed(zip_files[2])
  /\ dir[<<zip_files[2]>>] # Absent
  /\ dir # dir0
  /\ \E p \in Idx : IsOp(trace[p], "extract", zip_files[2]) /\ trace[p].entries # <<>>

----------------------------------------------------------------------------
(* C2 *)

\* C2: when the extraction of the k-th archive of the sorted list fails, the
\* run has ended there with a non-zero status: the failed extraction is the
\* last operation of the run and the only attempt on that archive, every
\* archive before k was extracted and unlinked, archive k is still in the
\* directory, and no archive after k was opened, extracted or unlinked.
C2_FailFast ==
  Discovered =>
    \A k \in 1..Len(zip_files) :
      ExtractFailed(zip_files[k]) =>
        /\ pc = "done"
        /\ status # 0
        /\ exc # "none"
        /\ IsOp(trace[Len(trace)], "extract", zip_files[k])
        /\ Cardinality({p \in Idx : IsOp(trace[p], "extract", zip_files[k])}) = 1
        /\ \A j \in 1..(k - 1) :
             ExtractedOk(zip_files[j]) /\ DeletedOk(zip_files[j])
        /\ dir[<<zip_files[k]>>] # Absent
        /\ \A j \in (k + 1)..Len(zip_files) : ~Touched(zip_files[j])

\* valid a.zip followed by corrupt b.zip: a.zip extracted and unlinked,
\* b.zip remains, the status is a failure
C2_Witness ==
  /\ pc = "done"
  /\ run = 1
  /\ zip_files = <<"a.zip", "b.zip">>
  /\ dir0[<<"a.zip">>].kind = "zip"
  /\ dir0[<<"b.zip">>] = Data
  /\ ExtractedOk("a.zip")
  /\ dir[<<"a.zip">>] = Absent
  /\ ExtractFailed("b.zip")
  /\ dir[<<"b.zip">>] = Data
  /\ exc = "BadZipFile"
  /\ status = 1

----------------------------------------------------------------------------
(* C3 *)

\* C3 as stated: the exit status of an extraction or filesystem error
\* differs from both the success status 0 and the no-archives status 1.
C3_ThreeDistinctStatuses ==
  pc = "done" =>
    /\ Outcome = "success" => status = 0
    /\ Outcome = "empty" => status = 1
    /\ Outcome = "error" => status \notin {0, 1}

\* C3 (amended): the exit status is 0 when archives were found and all were
\* processed, 1 when no archive was found, and 1 as well when an extraction
\* or filesystem error ended the run: the status tells success from the
\* other two outcomes, and does not tell an error from no archives.
C3_ExitStatus ==
  pc = "done" =>
    /\ Outcome = "success" => status = 0
    /\ Outcome = "empty" => status = 1
    /\ Outcome = "error" => status = 1
    /\ status = 0 => Outcome = "success"

\* a run that ended with an error after discovering archives
C3_Witness ==
  /\ pc = "done"
  /\ Outcome = "error"
  /\ zip_files # <<>>
  /\ status = 1

----------------------------------------------------------------------------
(* C4 *)

\* C4: in a run whose discovery finds no archive, no extraction and no
\* unlink is performed and the directory stays what it was before the run;
\* when the run has ended, standard output holds the single none-found line
\* and the status is 1.
C4_NoArchives ==
  (Discovered /\ zip_files = <<>>) =>
    /\ \A p \in Idx : trace[p].kind # "op"
    /\ dir = dir0
    /\ pc = "done" =>
         /\ Stdout = <<Line("none", "", 0)>>
         /\ status = 1
         /\ exc = "none"

\* a first run in a directory that holds a file but no archive
C4_Witness ==
  /\ pc = "done"
  /\ run = 1
  /\ zip_files = <<>>
  /\ Glob(dir0) = {}
  /\ dir0[<<"f.txt">>] = Data
  /\ dir[<<"f.txt">>] = Data
  /\ status = 1

----------------------------------------------------------------------------
(* C5 *)

\* every discovered archive was a valid archive when the run started
AllValid == \A n \in Files : dir0[<<n>>].kind = "zip"

\* every entry the discovered archives stored when the run started is in the
\* directory at its extraction target
AllEntriesPresent ==
  \A n \in Files :
    \A k \in 1..Len(dir0[<<n>>].entries) :
      dir[Target(dir0[<<n>>].entries[k].path)] # Absent

\* no entry of a discovered archive is stored under the name of a discovered
\* archive
NoCollision ==
  \A n \in Files :
    \A k \in 1..Len(dir0[<<n>>].entries) :
      Target(dir0[<<n>>].entries[k].path) \notin {<<m>> : m \in Files}

\* C5 as stated: after a run over valid archives that ended with status 0,
\* every entry of every discovered archive is in the directory and no
\* discovered archive file is.
C5_AllExtractedAllDeleted ==
  (pc = "done" /\ status = 0 /\ zip_files # <<>> /\ AllValid) =>
    /\ AllEntriesPresent
    /\ \A n \in Files : dir[<<n>>] = Absent

\* C5 (amended): the same, for the runs in which no entry of a discovered
\* archive is stored under the file name of a discovered archive; the path
\* an entry is written to is its stored path without its ".." components.
C5_AllExtractedAllDeletedNoCollision ==
  (pc = "done" /\ status = 0 /\ zip_files # <<>> /\ AllValid /\ NoCollision) =>
    /\ AllEntriesPresent
    /\ \A n \in Files : dir[<<n>>] = Absent

\* two valid archives without colliding entries, one of them holding
\* sub/dir/file.txt and one holding ../up.txt, both processed
C5_Witness ==
  /\ pc = "done"
  /\ status = 0
  /\ run = 1
  /\ Len(zip_files) = 2
  /\ AllValid
  /\ NoCollision
  /\ dir0[<<zip_files[1]>>].entries = <<Entry(<<"sub", "dir", "file.txt">>, Data)>>
  /\ dir0[<<zip_files[2]>>].entries = <<Entry(<<"..", "up.txt">>, Data)>>
  /\ dir0[<<"sub", "dir", "file.txt">>] = Absent
  /\ dir[<<"sub", "dir", "file.txt">>] = Data
  /\ dir[<<"up.txt">>] = Data

----------------------------------------------------------------------------
(* C6 *)

\* the names of the archives the run has opened so far, in the order of
\* opening
Opened == SelectSeq(trace, LAMBDA e : e.kind = "op" /\ e.what = "extract")

\* C6: the list is the set of archives that matched when the run started, in
\* strictly ascending order of file name; the archives are opened in the
\* order of the list, none skipped and none twice; and before an archive is
\* opened, its predecessor in the list was extracted and then unlinked.
C6_SequentialSortedOnce ==
  Discovered =>
    /\ Files = Glob(dir0)
    /\ \A j \in 1..(Len(zip_files) - 1) :
         LexLess(Chars(zip_files[j]), Chars(zip_files[j + 1]))
    /\ Len(Opened) <= Len(zip_files)
    /\ \A j \in 1..Len(Opened) : Opened[j].name = zip_files[j]
    /\ \A p \in Idx :
         \A j \in 1..(Len(zip_files) - 1) :
           IsOp(trace[p], "extract", zip_files[j + 1]) =>
             \E q \in 1..(p - 1) :
               /\ IsOp(trace[q], "unlink", zip_files[j]) /\ trace[q].ok
               /\ \E r \in 1..(q - 1) :
                    IsOp(trace[r], "extract", zip_files[j]) /\ trace[r].ok

\* three archives processed in the order a.zip, ab.zip, b.zip
C6_Witness ==
  /\ pc = "done"
  /\ status = 0
  /\ zip_files = <<"a.zip", "ab.zip", "b.zip">>
  /\ Len(Opened) = 3
  /\ Opened[1].name = "a.zip"
  /\ Opened[2].name = "ab.zip"
  /\ Opened[3].name = "b.zip"

----------------------------------------------------------------------------
(* C7 *)

----------------------------------------------------------------------------
(* C8 *)

PrevFiles == {prevFiles[j] : j \in 1..Len(prevFiles)}

\* the run discovers nothing and does nothing
NothingToDo ==
  /\ zip_files = <<>>
  /\ \A p \in Idx : trace[p].kind # "op"
  /\ dir = dir0
  /\ pc = "done" => (status = 1 /\ Stdout = <<Line("none", "", 0)>>)

----------------------------------------------------------------------------
(* C9 *)

\* C9: a summary line is the last event of the run, is printed when every
\* discovered archive has been extracted and unlinked, and reports the
\* number of archives extracted and unlinked in this run; a run that ended
\* with an error or found no archive printed no summary, and a run that
\* ended with status 0 printed one.
C9_Summary ==
  /\ \A p \in Idx :
       (trace[p].kind = "print" /\ trace[p].what = "summary") =>
         /\ p = Len(trace)
         /\ \A n \in Files : ExtractedOk(n) /\ DeletedOk(n)
         /\ trace[p].count = Cardinality({n \in Files : ExtractedOk(n) /\ DeletedOk(n)})
         /\ trace[p].count =
              Cardinality({q \in Idx : trace[q].kind = "op"
                                         /\ trace[q].what = "unlink" /\ trace[q].ok})
         /\ trace[p].count > 0
  /\ (pc = "done" /\ Outcome # "success") => ~Printed("summary")
  /\ (pc = "done" /\ status = 0) => Printed("summary")

\* three valid archives: the summary reports 3
C9_Witness ==
  /\ pc = "done"
  /\ run = 1
  /\ status = 0
  /\ Len(zip_files) = 3
  /\ \A n \in Files : dir0[<<n>>].kind = "zip"
  /\ trace[Len(trace)] = Line("summary", "", 3)

----------------------------------------------------------------------------
(* C10 *)

\* C10: the lines and the operations of a run alternate in the order of the
\* code: an operation on an archive directly follows the line announcing it
\* (extraction) or confirming the step before it (unlink); a confirmation
\* line directly follows the completed operation it confirms; a completed
\* operation is followed by nothing but its confirmation, a failed one by
\* nothing at all; and no line is printed twice for the same archive.
C10_OneLinePerEvent ==
  /\ \A p \in Idx :
       LET e == trace[p]
       IN /\ (e.kind = "op" /\ e.what = "extract") =>
               p > 1 /\ IsLine(trace[p - 1], "extracting", e.name)
          /\ (e.kind = "op" /\ e.what = "unlink") =>
               p > 1 /\ IsLine(trace[p - 1], "extracted", e.name)
          /\ (e.kind = "print" /\ e.what = "extracted") =>
               p > 1 /\ IsOp(trace[p - 1], "extract", e.name) /\ trace[p - 1].ok
          /\ (e.kind = "print" /\ e.what = "deleted") =>
               p > 1 /\ IsOp(trace[p - 1], "unlink", e.name) /\ trace[p - 1].ok
          /\ (e.kind = "print" /\ e.what = "extracting" /\ p < Len(trace)) =>
               IsOp(trace[p + 1], "extract", e.name)
          /\ (e.kind = "op" /\ e.ok /\ p < Len(trace)) =>
               IsLine(trace[p + 1], IF e.what = "extract" THEN "extracted" ELSE "deleted", e.name)
          /\ (e.kind = "op" /\ ~e.ok) => p = Len(trace)
  /\ \A p \in Idx :
       trace[p].kind = "print" =>
         \A q \in (p + 1)..Len(trace) :
           (trace[q].kind = "print" /\ trace[q].what = trace[p].what) =>
             trace[q].name # trace[p].name
  /\ (pc \in {"unlink", "for", "summary", "return0"} /\ trace # <<>>) =>
       trace[Len(trace)].kind = "print"

\* a run that printed the three lines of one archive and failed on the next
\* one: the announcing line of the second is the last line
C10_Witness ==
  /\ pc = "done"
  /\ Len(zip_files) >= 2
  /\ Len(trace) = 7
  /\ Stdout = <<Line("extracting", zip_files[1], 0), Line("extracted", zip_files[1], 0),
                Line("deleted", zip_files[1], 0), Line("extracting", zip_files[2], 0)>>
  /\ ExtractFailed(zip_files[2])

====
